---------------------------- MODULE Spec2Model ----------------------------
(***************************************************************************)
(* A model of the Associative Memory Store (src/src/memory_palace.py,      *)
(* class MemoryPalace): the two SQLite tables `memories` and               *)
(* `connections`, the in-memory emotional index, and the operations        *)
(* store, recall, evolve and dream.                                        *)
(*                                                                         *)
(* Numbers.  Every float of the program is an exact rational [n, d] in     *)
(* lowest terms (d > 0).                                                   *)
(*                                                                         *)
(* Time.  time.time() is a value [d, s]: d whole days (86400 s) and s a    *)
(* count of clock steps that are negligible against a day (the time one    *)
(* statement of an operation takes); [d, s] stands for d days + s * eps    *)
(* and is ordered lexicographically.  Every call of time.time() reads a    *)
(* value that is not earlier than the previous reading; days pass only     *)
(* between operations (action Tick).                                       *)
(*                                                                         *)
(* Text.  A string is a sequence of tokens: words and the blank " ".       *)
(*                                                                         *)
(* The Field Engine (src/src/consciousness_field.py, class                 *)
(* ConsciousnessField) is modelled further down: a grid of two cells a     *)
(* side whose values are decimal floats of four digits with the range of   *)
(* a float64.                                                              *)
(***************************************************************************)
EXTENDS Integers, Sequences, FiniteSets, Bags, TLC

VARIABLES
    memories,         \* table `memories`, rows in rowid order
    connections,      \* table `connections`, a bag of rows (no key, no UNIQUE)
    emotional_index,  \* self.emotional_index: emotion -> list of ids
    clock,            \* the last value time.time() returned
    evolved,          \* number of evolve() calls so far (bounds the run)
    ret,              \* the last operation: its name, its arguments, the tables
                      \* it started from and the value it returned
    field,            \* ConsciousnessField.field, the grid of cell values
    coherence,        \* ConsciousnessField.coherence
    phase_lock,       \* ConsciousnessField.phase_lock, one phase per cell
    calls             \* number of calls on the field so far (bounds the run)

vars == <<memories, connections, emotional_index, clock, evolved, ret,
          field, coherence, phase_lock, calls>>

-----------------------------------------------------------------------------
(* Bounds of the model *)

MaxStores == 2      \* store() calls in a run
MaxDay == 1         \* days the clock may advance (general specification)
MaxSub == 2         \* clock steps within the operations of a run
MaxAccess == 1      \* cap on access_count (general specification)
MaxEvolves == 1     \* evolve() calls in a run
MaxDreamEdges == 2  \* dream rows `connections` may hold
RecallStores == 2   \* store() calls in a run of SpecRecall
EvolveStores == 1   \* store() calls in a run of SpecEvolve
EvolveAccess == 11  \* cap on access_count in SpecEvolve
EvolveDays == 8     \* days the clock may advance in SpecEvolve
EvolveCalls == 1    \* evolve() calls in a run of SpecEvolve
StatStores == 2     \* store() calls in a run of SpecStats
MaxTextLen == 3     \* tokens of a text given to _calculate_resonance
FieldCalls == 3     \* calls on the field in a run of SpecField
IdStores == 2       \* store() calls in a run of SpecIds
IdDays == 10        \* days that pass in a run of SpecIds
EmptyStores == 2    \* store() calls in a run of SpecEmpty
AccessStores == 2   \* store() calls in a run of SpecAccess
AccessCalls == 5    \* recalls of one record in a run of SpecAccess

-----------------------------------------------------------------------------
(* Rational arithmetic *)

RECURSIVE GCD(_, _)
GCD(a, b) == IF b = 0 THEN a ELSE GCD(b, a % b)

Abs(x) == IF x < 0 THEN -x ELSE x

Reduced(n, d, g) == [n |-> n \div g, d |-> d \div g]

\* the rational n/d (d > 0) in lowest terms
Rat(n, d) == Reduced(n, d, GCD(Abs(n), d))

RMul(x, y) == Rat(x.n * y.n, x.d * y.d)

RAdd(x, y) == Rat(x.n * y.d + y.n * x.d, x.d * y.d)

\* a/b < c/d for a, c >= 0 and b, d > 0, by the continued-fraction expansion
\* (no product is formed, so no 32-bit overflow)
RECURSIVE PosLess(_, _, _, _)
PosLess(a, b, c, d) ==
    LET q1 == a \div b
        q2 == c \div d
        r1 == a % b
        r2 == c % d
    IN  IF q1 # q2 THEN q1 < q2
        ELSE IF r2 = 0 THEN FALSE
        ELSE IF r1 = 0 THEN TRUE
        ELSE PosLess(d, r2, b, r1)

RLess(x, y) ==
    IF x.n < 0
    THEN IF y.n < 0 THEN PosLess(-y.n, y.d, -x.n, x.d) ELSE TRUE
    ELSE IF y.n < 0 THEN FALSE ELSE PosLess(x.n, x.d, y.n, y.d)

Zero == Rat(0, 1)

-----------------------------------------------------------------------------
(* Time *)

Time(d, s) == [d |-> d, s |-> s]

TLess(t, u) == t.d < u.d \/ (t.d = u.d /\ t.s < u.s)

Week == 7

\* The values one call of time.time() may return when the previous reading
\* was t: t itself or a later clock step of the same day.
TimeReads(t) == {Time(t.d, s) : s \in t.s .. MaxSub}

-----------------------------------------------------------------------------
(* Text *)

\* str.lower(), on the words the model uses
Lower(w) ==
    CASE w = "A" -> "a"
      [] w = "The" -> "the"
      [] w = "Mathematics" -> "mathematics"
      [] w = "Beautiful" -> "beautiful"
      [] w = "I" -> "i"
      [] w = "Important" -> "important"
      [] w = "Memory" -> "memory"
      [] w = "Track" -> "track"
      [] w = "Coffee" -> "coffee"
      [] w = "Music" -> "music"
      [] w = "Numbers" -> "numbers"
      [] OTHER -> w

\* str.split(): the words of a string, blanks dropped
Split(text) == SelectSeq(text, LAMBDA w : w # " ")

SetOf(seq) == {seq[i] : i \in DOMAIN seq}

\* set(text.lower().split())
LowerWords(text) == {Lower(w) : w \in SetOf(Split(text))}

\* A variant of Jaccard that divides by the size of the first set
Containment(words1, words2) ==
    IF words1 = {} \/ words2 = {}
    THEN Rat(0, 1)
    ELSE Rat(Cardinality(words1 \cap words2), Cardinality(words1))

\* A variant of Jaccard without the guard for empty sets, two empty sets
\* counting as equal
JaccardNoGuard(words1, words2) ==
    IF words1 \cup words2 = {}
    THEN Rat(1, 1)
    ELSE Rat(Cardinality(words1 \cap words2), Cardinality(words1 \cup words2))

\* len(intersection) / len(union), 0.0 when either set is empty
Jaccard(words1, words2) ==
    IF words1 = {} \/ words2 = {}
    THEN Zero
    ELSE Rat(Cardinality(words1 \cap words2), Cardinality(words1 \cup words2))

calculate_resonance(text1, text2) == Jaccard(LowerWords(text1), LowerWords(text2))

\* len(set(words)) / max(len(words), 1)
Complexity(words) ==
    Rat(Cardinality(SetOf(words)), IF Len(words) > 1 THEN Len(words) ELSE 1)

calculate_initial_resonance(content) ==
    RAdd(Rat(1, 2), RMul(Complexity(Split(content)), Rat(1, 2)))

\* the decimal digits of a natural number, one token per digit
RECURSIVE Digits(_)
Digits(n) ==
    IF n < 10
    THEN <<<<"0", "1", "2", "3", "4", "5", "6", "7", "8", "9">>[n + 1]>>
    ELSE Digits(n \div 10) \o Digits(n % 10)

\* str(time.time()) of a clock reading: the digits of its whole part, a
\* point, the digits of its fraction
TimeText(t) == Digits(t.d) \o <<".">> \o Digits(t.s)

\* hashlib.md5(f"{content}{time.time()}").hexdigest()[:16]: the text that is
\* hashed is the content followed by the clock reading; the digest is taken
\* to be injective on that text
generate_id(content, t) == content \o TimeText(t)

None == "None"

\* the grids of a ConsciousnessField before one is constructed: no cell
NoField == <<>>

\* its coherence before one is constructed: no number
NoCoherence == [k |-> "none", m |-> 0, e |-> 0]

\* A metadata argument: Python's None, or a dict given as its list of items
NoMetadata == [none |-> TRUE, items |-> <<>>]

Dict(items) == [none |-> FALSE, items |-> items]

\* json.dumps(metadata) if metadata else '{}': the JSON text is the list of
\* items it lists ('{}' is the empty list)
MetadataText(metadata) ==
    IF metadata.none \/ metadata.items = <<>> THEN <<>> ELSE metadata.items

-----------------------------------------------------------------------------
(* The tables *)

Edge(from, to, strength, kind) ==
    [memory_id |-> from, connected_id |-> to, strength |-> strength,
     connection_type |-> kind]

\* the tables an operation starts from
Pre == [memories |-> memories, connections |-> connections]

ConnectionThreshold == Rat(3, 10)

\* A variant of SemanticEdges that inserts the new->existing direction only
OneWayEdges(rows, memory_id, content) ==
    {Edge(memory_id, rows[i].id,
          calculate_resonance(content, rows[i].content), "semantic") :
       i \in {k \in DOMAIN rows :
                /\ rows[k].id # memory_id
                /\ RLess(Rat(3, 10), calculate_resonance(content, rows[k].content))}}

\* The rows _form_connections inserts for the new record: for every other
\* row whose similarity exceeds the threshold, both directions.
SemanticEdges(rows, memory_id, content) ==
    UNION {IF /\ rows[i].id # memory_id
              /\ RLess(ConnectionThreshold,
                       calculate_resonance(content, rows[i].content))
           THEN {Edge(memory_id, rows[i].id,
                      calculate_resonance(content, rows[i].content), "semantic"),
                 Edge(rows[i].id, memory_id,
                      calculate_resonance(content, rows[i].content), "semantic")}
           ELSE {} : i \in DOMAIN rows}

\* the rows of a table that have one connection_type
OfKind(table, kind) ==
    [e \in {x \in BagToSet(table) : x.connection_type = kind} |-> table[e]]

\* One INSERT per row of `edges` (distinct rows, each inserted once)
InsertAll(table, edges) == table (+) SetToBag(edges)

form_connections(rows, table, memory_id, content) ==
    InsertAll(table, SemanticEdges(rows, memory_id, content))

\* A variant of InsertOrReplace that replaces by content instead of by key
ReplaceSameContent(rows, row) ==
    Append(SelectSeq(rows, LAMBDA r : r.content # row.content), row)

\* INSERT OR REPLACE INTO memories: a row with the same primary key is
\* deleted, the new row is appended
InsertOrReplace(rows, row) ==
    Append(SelectSeq(rows, LAMBDA r : r.id # row.id), row)

Stores == LET n(e) == Len(emotional_index[e])
              RECURSIVE Sum(_)
              Sum(S) == IF S = {} THEN 0
                        ELSE LET e == CHOOSE x \in S : TRUE
                             IN  n(e) + Sum(S \ {e})
          IN  Sum(DOMAIN emotional_index)

-----------------------------------------------------------------------------
(* store(content, emotion, metadata) *)

\* the row store() writes
NewRow(memory_id, content, emotion, timestamp, metadata) ==
    [id |-> memory_id,
     content |-> content,
     emotion |-> emotion,
     timestamp |-> timestamp,
     resonance |-> calculate_initial_resonance(content),
     access_count |-> 0,
     last_accessed |-> timestamp,
     metadata |-> MetadataText(metadata)]

\* self.emotional_index[emotion].append(memory_id)
IndexAppend(index, emotion, memory_id) ==
    IF emotion \in DOMAIN index
    THEN [index EXCEPT ![emotion] = Append(@, memory_id)]
    ELSE [e \in DOMAIN index \cup {emotion} |->
            IF e = emotion THEN <<memory_id>> ELSE index[e]]

\* store, once the new row is in `memories` (rows)
StoreInto(rows, memory_id, content, emotion, metadata, timestamp) ==
    /\ memories' = rows
    /\ connections' = form_connections(rows, connections, memory_id, content)
    /\ emotional_index' = IndexAppend(emotional_index, emotion, memory_id)
    /\ clock' = timestamp
    /\ ret' = [op |-> "store", content |-> content, emotion |-> emotion,
               metadata |-> metadata, pre |-> Pre, value |-> memory_id]
    /\ UNCHANGED <<evolved, field, coherence, phase_lock, calls>>

store(content, emotion, metadata, maxStores) ==
    /\ Stores < maxStores
    /\ \E t1 \in TimeReads(clock) : \E timestamp \in TimeReads(t1) :
         StoreInto(InsertOrReplace(memories,
                       NewRow(generate_id(content, t1), content, emotion,
                              timestamp, metadata)),
                   generate_id(content, t1), content, emotion, metadata, timestamp)

-----------------------------------------------------------------------------
(* recall(trigger, emotion, limit) *)

\* np.exp(-k) for k whole days, in units of 1/100000
ExpNeg(k) ==
    CASE k = 0 -> 100000
      [] k = 1 -> 36788
      [] k = 2 -> 13534
      [] k = 3 -> 4979
      [] k = 4 -> 1832
      [] k = 5 -> 674
      [] k = 6 -> 248
      [] k = 7 -> 91
      [] k = 8 -> 34
      [] k = 9 -> 12
      [] k = 10 -> 5
      [] k = 11 -> 2
      [] k = 12 -> 1
      [] OTHER -> 0

\* A score is p - lag * eps: p its value at the whole-day age, lag the
\* first-order loss over the clock steps of the age.  Scores are ordered
\* lexicographically: by p, then by smaller lag.
ScoreLess(x, y) == RLess(x.p, y.p) \/ (x.p = y.p /\ RLess(y.lag, x.lag))

\* resonance * (0.5 + 0.5 * np.exp(-(time.time() - last_accessed) / 86400))
\* with exp(-(k + m * eps)) = exp(-k) * (1 - m * eps)
Weighted(resonance, time_factor, m) ==
    [p |-> RMul(resonance, RAdd(Rat(1, 2), RMul(Rat(1, 2), time_factor))),
     lag |-> RMul(resonance, RMul(Rat(1, 2), RMul(time_factor, Rat(m, 1))))]

TimeWeighted(resonance, t, last_accessed) ==
    Weighted(resonance, Rat(ExpNeg(t.d - last_accessed.d), 100000),
             t.s - last_accessed.s)

EmotionBoost == Rat(3, 2)

\* A variant of Primed without the emotion boost
Unprimed(resonance, emotion, row) == resonance

\* if emotion and memory.emotion == emotion: resonance *= 1.5
Primed(resonance, emotion, row) ==
    IF emotion # None /\ emotion # "" /\ row.emotion = emotion
    THEN RMul(resonance, EmotionBoost)
    ELSE resonance

\* the score recall gives one row, scanned when the clock reads t
RowScore(trigger, emotion, row, t) ==
    TimeWeighted(Primed(calculate_resonance(trigger, row.content), emotion, row),
                 t, row.last_accessed)

RecallThreshold == [p |-> Rat(1, 5), lag |-> Zero]

AboveThreshold(score) == ScoreLess(RecallThreshold, score)

\* the place of seq[i] after list.sort(key=score, reverse=True): behind every
\* higher score and, the sort being stable, behind the equal scores scanned
\* before it
PlaceDesc(seq, i) ==
    1 + Cardinality({j \in DOMAIN seq :
                       \/ ScoreLess(seq[i].score, seq[j].score)
                       \/ (j < i /\ ~ScoreLess(seq[j].score, seq[i].score))})

\* A variant of SortDesc that leaves the list in scan order
ScanOrder(seq) == seq

SortDesc(seq) ==
    [k \in DOMAIN seq |-> seq[CHOOSE i \in DOMAIN seq : PlaceDesc(seq, i) = k]]

\* seq[:limit]
Prefix(seq, limit) ==
    SubSeq(seq, 1,
           IF limit >= 0
           THEN (IF limit < Len(seq) THEN limit ELSE Len(seq))
           ELSE (IF Len(seq) + limit > 0 THEN Len(seq) + limit ELSE 0))

\* _get_connections(memory_id): the connected ids, with multiplicity
get_connections(table, memory_id) ==
    LET out == {e \in BagToSet(table) : e.memory_id = memory_id}
        RECURSIVE Count(_, _)
        Count(S, id) ==
            IF S = {} THEN 0
            ELSE LET e == CHOOSE x \in S : TRUE
                 IN  (IF e.connected_id = id THEN CopiesIn(e, table) ELSE 0)
                       + Count(S \ {e}, id)
    IN  [id \in {e.connected_id : e \in out} |-> Count(out, id)]

\* A variant of Memory that reports the access count after the increment
MemoryAfter(row, table) ==
    [id |-> row.id, content |-> row.content, emotion |-> row.emotion,
     timestamp |-> row.timestamp, resonance |-> row.resonance,
     connections |-> get_connections(table, row.id),
     access_count |-> row.access_count + 1, last_accessed |-> row.last_accessed,
     metadata |-> row.metadata]

\* the Memory object built from a row
Memory(row, table) ==
    [id |-> row.id, content |-> row.content, emotion |-> row.emotion,
     timestamp |-> row.timestamp, resonance |-> row.resonance,
     connections |-> get_connections(table, row.id),
     access_count |-> row.access_count, last_accessed |-> row.last_accessed,
     metadata |-> row.metadata]

\* k successive readings of time.time() starting from clock step s0
ReadSeqs(k, s0) ==
    {f \in [1..k -> s0..MaxSub] : \A i \in 1..(k - 1) : f[i] <= f[i + 1]}

LastRead(f, s0) == IF Len(f) = 0 THEN s0 ELSE f[Len(f)]

\* A variant of UpdateAccess that counts the access but keeps last_accessed
CountOnly(rows, top, upd, day) ==
    [i \in DOMAIN rows |->
        IF \E j \in DOMAIN top : top[j].memory.id = rows[i].id
        THEN [rows[i] EXCEPT !.access_count = @ + 1]
        ELSE rows[i]]

\* _update_access(memory_id) for the j-th returned record, at time upd[j]
UpdateAccess(rows, top, upd, day) ==
    [i \in DOMAIN rows |->
        IF \E j \in DOMAIN top : top[j].memory.id = rows[i].id
        THEN LET j == CHOOSE j \in DOMAIN top : top[j].memory.id = rows[i].id
             IN  [rows[i] EXCEPT !.access_count = @ + 1,
                                 !.last_accessed = Time(day, upd[j])]
        ELSE rows[i]]

\* the loop over the rows: row i is scored when the clock reads reads[i]
Scan(rows, table, trigger, emotion, day, reads) ==
    [i \in DOMAIN rows |->
        [memory |-> Memory(rows[i], table),
         score |-> RowScore(trigger, emotion, rows[i], Time(day, reads[i]))]]

\* if resonance > 0.2: memories.append(...); sort; memories[:limit]
Top(scanned, limit) ==
    Prefix(SortDesc(SelectSeq(scanned, LAMBDA x : AboveThreshold(x.score))), limit)

\* recall, once the rows are scored: the updates of the returned records
RecallTop(trigger, emotion, limit, maxAccess, scanned, top, s1) ==
    /\ \A j \in DOMAIN top : top[j].memory.access_count < maxAccess
    /\ \E upd \in ReadSeqs(Len(top), s1) :
         /\ memories' = UpdateAccess(memories, top, upd, clock.d)
         /\ clock' = Time(clock.d, LastRead(upd, s1))
    /\ ret' = [op |-> "recall", trigger |-> trigger, emotion |-> emotion,
               limit |-> limit, pre |-> Pre, scanned |-> scanned, value |-> top]
    /\ UNCHANGED <<connections, emotional_index, evolved, field, coherence, phase_lock, calls>>

RecallScanned(trigger, emotion, limit, maxAccess, scanned, s1) ==
    RecallTop(trigger, emotion, limit, maxAccess, scanned, Top(scanned, limit), s1)

recall(trigger, emotion, limit, maxAccess) ==
    \E reads \in ReadSeqs(Len(memories), clock.s) :
       RecallScanned(trigger, emotion, limit, maxAccess,
                     Scan(memories, connections, trigger, emotion, clock.d, reads),
                     LastRead(reads, clock.s))

-----------------------------------------------------------------------------
(* evolve() *)

Strengthen == Rat(101, 100)

Fade == Rat(99, 100)

PruneFloor == Rat(1, 10)

\* UPDATE memories SET resonance = resonance * 1.01 WHERE access_count > 10
StrengthenRows(rows) ==
    [i \in DOMAIN rows |->
        IF rows[i].access_count > 10
        THEN [rows[i] EXCEPT !.resonance = RMul(@, Strengthen)]
        ELSE rows[i]]

\* A variant of FadeRows that spares the frequently accessed rows
FadeUnlessFrequent(rows, week_ago) ==
    [i \in DOMAIN rows |->
        IF TLess(rows[i].last_accessed, week_ago) /\ rows[i].access_count <= 10
        THEN [rows[i] EXCEPT !.resonance = RMul(@, Rat(99, 100))]
        ELSE rows[i]]

\* UPDATE memories SET resonance = resonance * 0.99 WHERE last_accessed < week_ago
FadeRows(rows, week_ago) ==
    [i \in DOMAIN rows |->
        IF TLess(rows[i].last_accessed, week_ago)
        THEN [rows[i] EXCEPT !.resonance = RMul(@, Fade)]
        ELSE rows[i]]

\* A variant of PruneWeak whose floor lies above the connection threshold
PruneBelowNineTenths(table) ==
    [e \in {x \in BagToSet(table) : ~RLess(x.strength, Rat(9, 10))} |-> table[e]]

\* A variant of PruneWeak that deletes below 0.5
PruneBelowHalf(table) ==
    [e \in {x \in BagToSet(table) : ~RLess(x.strength, Rat(1, 2))} |-> table[e]]

\* DELETE FROM connections WHERE strength < 0.1
PruneWeak(table) ==
    [e \in {x \in BagToSet(table) : ~RLess(x.strength, PruneFloor)} |-> table[e]]

evolve(maxEvolves) ==
    /\ evolved < maxEvolves
    /\ \E current_time \in TimeReads(clock) :
         /\ memories' = FadeRows(StrengthenRows(memories),
                                 Time(current_time.d - Week, current_time.s))
         /\ connections' = PruneWeak(connections)
         /\ clock' = current_time
         /\ ret' = [op |-> "evolve", pre |-> Pre, current_time |-> current_time]
    /\ evolved' = evolved + 1
    /\ UNCHANGED <<emotional_index, field, coherence, phase_lock, calls>>

-----------------------------------------------------------------------------
(* dream(num_connections) *)

\* np.random.random() * 0.5: values of [0, 0.5)
DreamStrengths == {Rat(1, 20), Rat(2, 5)}

Draws == {[hit |-> FALSE, strength |-> Zero]}
           \cup {[hit |-> TRUE, strength |-> s] : s \in DreamStrengths}

\* A variant of Samples that may draw a row more than once
SamplesWithRepeats(rows, k) ==
    [1..(IF k < Len(rows) THEN k ELSE Len(rows)) -> DOMAIN rows]

\* SELECT id FROM memories ORDER BY RANDOM() LIMIT k: k distinct rows, any order
Samples(rows, k) ==
    {f \in [1..(IF k < Len(rows) THEN k ELSE Len(rows)) -> DOMAIN rows] :
        \A i, j \in DOMAIN f : i # j => f[i] # f[j]}

\* A variant of DreamEdges that links every pair in both directions
DreamEdgesBothWays(rows, sample, draw) ==
    UNION {{Edge(rows[sample[2 * j - 1]].id, rows[sample[2 * j]].id,
                 draw[j].strength, "dream"),
            Edge(rows[sample[2 * j]].id, rows[sample[2 * j - 1]].id,
                 draw[j].strength, "dream")} :
           j \in {i \in DOMAIN draw : draw[i].hit}}

\* for i in range(0, len(memories)-1, 2): pair j is (sample[2j-1], sample[2j]);
\* draw[j] is a miss when np.random.random() >= 0.3, else the strength drawn.
\* INSERT OR IGNORE finds no constraint on `connections` to ignore a row by.
DreamEdges(rows, sample, draw) ==
    {Edge(rows[sample[2 * j - 1]].id, rows[sample[2 * j]].id, draw[j].strength, "dream") :
        j \in {i \in DOMAIN draw : draw[i].hit}}

dream(num_connections, maxDreamEdges) ==
    /\ \E sample \in Samples(memories, 2 * num_connections) :
       \E draw \in [1..(Len(sample) \div 2) -> Draws] :
         /\ connections' = InsertAll(connections, DreamEdges(memories, sample, draw))
         /\ BagCardinality(OfKind(connections', "dream")) <= maxDreamEdges
    /\ ret' = [op |-> "dream", num_connections |-> num_connections, pre |-> Pre]
    /\ UNCHANGED <<memories, emotional_index, clock, evolved,
                   field, coherence, phase_lock, calls>>

-----------------------------------------------------------------------------
(* get_statistics() *)

\* the sum of the resonance column over the first n rows
RECURSIVE SumResonance(_, _)
SumResonance(rows, n) ==
    IF n = 0 THEN Zero ELSE RAdd(SumResonance(rows, n - 1), rows[n].resonance)

\* SELECT AVG(resonance) FROM memories, `or 0` when there is no row
AverageResonance(rows) ==
    IF rows = <<>> THEN Zero
    ELSE LET sum == SumResonance(rows, Len(rows))
         IN  Rat(sum.n, sum.d * Len(rows))

get_statistics(rows, table) ==
    [total_memories |-> Len(rows),
     by_emotion |->
         [e \in {rows[i].emotion : i \in DOMAIN rows} |->
             Cardinality({i \in DOMAIN rows : rows[i].emotion = e})],
     total_connections |-> BagCardinality(table),
     average_resonance |-> AverageResonance(rows)]

statistics ==
    /\ ret' = [op |-> "get_statistics", pre |-> Pre,
               value |-> get_statistics(memories, connections)]
    /\ UNCHANGED <<memories, connections, emotional_index, clock, evolved,
                   field, coherence, phase_lock, calls>>

-----------------------------------------------------------------------------
(* The floats of the field (src/src/consciousness_field.py).

   A float is [k, m, e]: a number m * 10^e whose mantissa m is 0 or has
   four digits, with the range of a float64 (largest finite value
   1.797e308, results above it are infinite), or an infinity (m is its
   sign), or NaN.  Results are cut to four digits. *)

NaN == [k |-> "nan", m |-> 0, e |-> 0]

Inf(sign) == [k |-> "inf", m |-> sign, e |-> 0]

FZero == [k |-> "num", m |-> 0, e |-> 0]

Sgn(x) == IF x > 0 THEN 1 ELSE IF x < 0 THEN -1 ELSE 0

\* a positive number m * 10^e with m cut or padded to four digits
RECURSIVE FourDigits(_, _)
FourDigits(m, e) ==
    IF m >= 10000 THEN FourDigits(m \div 10, e + 1)
    ELSE IF m < 1000 THEN FourDigits(m * 10, e - 1)
    ELSE [m |-> m, e |-> e]

\* a positive mantissa and exponent within the range of a float64:
\* infinite above 1.797e308, zero below the smallest subnormal
Ranged(sign, x) ==
    IF x.e > 305 \/ (x.e = 305 /\ x.m > 1797) THEN Inf(sign)
    ELSE IF x.e < -327 THEN FZero
    ELSE [k |-> "num", m |-> sign * x.m, e |-> x.e]

\* the float m * 10^e
Float(m, e) ==
    IF m = 0 THEN FZero
    ELSE Ranged(Sgn(m), FourDigits(Abs(m), e))

FNeg(a) == [a EXCEPT !.m = -@]

FAbs(a) == [a EXCEPT !.m = Abs(@)]

FMul(a, b) ==
    IF a.k = "nan" \/ b.k = "nan" THEN NaN
    ELSE IF a.k = "inf" \/ b.k = "inf"
         THEN IF a.m = 0 \/ b.m = 0 THEN NaN ELSE Inf(Sgn(a.m) * Sgn(b.m))
    ELSE Float(a.m * b.m, a.e + b.e)

FDiv(a, b) ==
    IF a.k = "nan" \/ b.k = "nan" THEN NaN
    ELSE IF a.k = "inf"
         THEN IF b.k = "inf" THEN NaN
              ELSE Inf(a.m * (IF b.m < 0 THEN -1 ELSE 1))
    ELSE IF b.k = "inf" THEN FZero
    ELSE IF b.m = 0
         THEN IF a.m = 0 THEN NaN ELSE Inf(Sgn(a.m))
    ELSE Float(Sgn(a.m) * Sgn(b.m) * ((Abs(a.m) * 10000) \div Abs(b.m)),
               a.e - b.e - 4)

\* the sum of two numbers, a of the larger exponent; b is lost when it lies
\* below the last digit of a
Aligned(a, b) ==
    IF a.e - b.e > 4 THEN a ELSE Float(a.m * 10^(a.e - b.e) + b.m, b.e)

FAdd(a, b) ==
    IF a.k = "nan" \/ b.k = "nan" THEN NaN
    ELSE IF a.k = "inf"
         THEN IF b.k = "inf" /\ b.m # a.m THEN NaN ELSE a
    ELSE IF b.k = "inf" THEN b
    ELSE IF a.m = 0 THEN b
    ELSE IF b.m = 0 THEN a
    ELSE IF a.e >= b.e THEN Aligned(a, b) ELSE Aligned(b, a)

\* a < b for two positive values
PosFLess(a, b) ==
    IF a.k = "inf" THEN FALSE
    ELSE IF b.k = "inf" THEN TRUE
    ELSE a.e < b.e \/ (a.e = b.e /\ a.m < b.m)

\* a < b; every comparison with NaN is false
FLess(a, b) ==
    IF a.k = "nan" \/ b.k = "nan" THEN FALSE
    ELSE IF Sgn(a.m) # Sgn(b.m) THEN Sgn(a.m) < Sgn(b.m)
    ELSE IF a.m > 0 THEN PosFLess(a, b)
    ELSE IF a.m < 0 THEN PosFLess(FNeg(b), FNeg(a))
    ELSE FALSE

\* np.maximum: NaN when either argument is NaN
Maximum(a, b) ==
    IF a.k = "nan" \/ b.k = "nan" THEN NaN ELSE IF FLess(a, b) THEN b ELSE a

\* np.clip(x, lo, hi), the minimum of np.maximum(x, lo) and hi: NaN for NaN
Clip(x, lo, hi) ==
    IF x.k = "nan" THEN NaN
    ELSE IF FLess(hi, Maximum(x, lo)) THEN hi ELSE Maximum(x, lo)

RECURSIVE FSum(_)
FSum(seq) == IF seq = <<>> THEN FZero ELSE FAdd(FSum(Tail(seq)), Head(seq))

\* the value of a step table at x >= 0: the entry of the last row whose
\* threshold is not above x
Step(table, x) ==
    table[CHOOSE i \in DOMAIN table :
             /\ ~FLess(x, table[i][1])
             /\ i = Len(table) \/ FLess(x, table[i + 1][1])][2]

\* tanh at the thresholds 0, 0.25, ..., to four digits; 1.0 from 19.1 on
TanhTable ==
    <<<<FZero, FZero>>,
      <<Float(25, -2), Float(2449, -4)>>,
      <<Float(5, -1), Float(4621, -4)>>,
      <<Float(75, -2), Float(6351, -4)>>,
      <<Float(1, 0), Float(7615, -4)>>,
      <<Float(125, -2), Float(8482, -4)>>,
      <<Float(15, -1), Float(9051, -4)>>,
      <<Float(175, -2), Float(9413, -4)>>,
      <<Float(2, 0), Float(9640, -4)>>,
      <<Float(25, -1), Float(9866, -4)>>,
      <<Float(3, 0), Float(9950, -4)>>,
      <<Float(4, 0), Float(9993, -4)>>,
      <<Float(5, 0), Float(9999, -4)>>,
      <<Float(191, -1), Float(1, 0)>>>>

\* np.tanh
Tanh(x) ==
    IF x.k = "nan" THEN NaN
    ELSE FMul(Float(Sgn(x.m), 0), Step(TanhTable, FAbs(x)))

\* exp(-x / 1000) at the thresholds, to four digits; 0.0 from 750000 on
ExpTable ==
    <<<<FZero, Float(1, 0)>>,
      <<Float(1, 0), Float(9990, -4)>>,
      <<Float(4, 0), Float(9960, -4)>>,
      <<Float(9, 0), Float(9910, -4)>>,
      <<Float(16, 0), Float(9841, -4)>>,
      <<Float(100, 0), Float(9048, -4)>>,
      <<Float(1000, 0), Float(3678, -4)>>,
      <<Float(10000, 0), Float(4539, -8)>>,
      <<Float(75, 4), FZero>>>>

\* np.exp(-x / 1000) for x >= 0
ExpNegThousandth(x) == IF x.k = "nan" THEN NaN ELSE Step(ExpTable, x)

-----------------------------------------------------------------------------
(* The consciousness field (class ConsciousnessField) *)

\* the `dimensions` argument of the constructor
Dimensions == 2

PHI_CONJUGATE == Float(6180, -4)

Ten == Float(10, 0)

Cells == (0..(Dimensions - 1)) \X (0..(Dimensions - 1))

\* the cells in the order numpy walks them
CellSeq ==
    [i \in 1..(Dimensions * Dimensions) |->
        <<(i - 1) \div Dimensions, (i - 1) % Dimensions>>]

\* the values of a grid in that order
Flat(grid) == [i \in DOMAIN CellSeq |-> grid[CellSeq[i]]]

Zeros == [c \in Cells |-> FZero]

\* __init__; of np.random.random((dimensions, dimensions)) * 2 * np.pi the
\* phases 0 and pi are drawn: a cell of phase_lock holds the phase in units
\* of pi
ConsciousnessField ==
    /\ field = NoField
    /\ field' = Zeros
    /\ coherence' = PHI_CONJUGATE
    /\ phase_lock' \in [Cells -> {0, 1}]
    /\ calls' = 0
    /\ ret' = [op |-> "ConsciousnessField"]
    /\ UNCHANGED <<memories, connections, emotional_index, clock, evolved>>

\* np.abs(self.field).max(): NaN when a cell is NaN
RECURSIVE MaxOf(_)
MaxOf(seq) ==
    IF Len(seq) = 1 THEN Head(seq) ELSE Maximum(Head(seq), MaxOf(Tail(seq)))

max_amplitude(grid) == MaxOf(Flat([c \in Cells |-> FAbs(grid[c])]))

Normalized(grid, peak) ==
    IF FLess(Ten, peak)
    THEN [c \in Cells |-> FDiv(grid[c], FDiv(peak, Ten))]
    ELSE grid

normalize_field(grid) == Normalized(grid, max_amplitude(grid))

\* (x - origin[0])**2 + (y - origin[1])**2 for the cell of row c[1] and
\* column c[2]: x is the column and y the row (np.meshgrid)
Distance2(c, origin) ==
    (c[2] - origin[1]) * (c[2] - origin[1]) + (c[1] - origin[2]) * (c[1] - origin[2])

\* np.exp(-distance / 100) to four digits, by the squared distance
Decay(d2) ==
    CASE d2 = 0 -> Float(1, 0)
      [] d2 = 1 -> Float(9900, -4)
      [] d2 = 2 -> Float(9859, -4)

\* np.exp(1j * (frequency * distance - phase_lock)) for the frequency 0 and
\* the phases 0 and pi: 1 and -1
Turn(frequency, d2, lock) ==
    CASE frequency = 0 /\ lock = 0 -> Float(1, 0)
      [] frequency = 0 /\ lock = 1 -> Float(-1, 0)

Wave(origin, frequency, amplitude) ==
    [c \in Cells |->
        FMul(FMul(amplitude, Decay(Distance2(c, origin))),
             Turn(frequency, Distance2(c, origin), phase_lock[c]))]

Plus(grid1, grid2) == [c \in Cells |-> FAdd(grid1[c], grid2[c])]

create_ripple(origin, frequency, amplitude, maxCalls) ==
    /\ field # NoField
    /\ calls < maxCalls
    /\ field' = normalize_field(Plus(field, Wave(origin, frequency, amplitude)))
    /\ calls' = calls + 1
    /\ ret' = [op |-> "create_ripple", origin |-> origin,
               frequency |-> frequency, amplitude |-> amplitude]
    /\ UNCHANGED <<memories, connections, emotional_index, clock, evolved,
                   coherence, phase_lock>>

\* np.roll(grid, shift, axis)
Roll(grid, shift, axis) ==
    [c \in Cells |->
        IF axis = 0 THEN grid[<<(c[1] - shift) % Dimensions, c[2]>>]
                    ELSE grid[<<c[1], (c[2] - shift) % Dimensions>>]]

Laplacian(grid) ==
    [c \in Cells |->
        FAdd(FAdd(FAdd(FAdd(Roll(grid, 1, 0)[c], Roll(grid, -1, 0)[c]),
                       Roll(grid, 1, 1)[c]),
                  Roll(grid, -1, 1)[c]),
             FNeg(FMul(Float(4, 0), grid[c])))]

\* self.field += time_step * laplacian
Stepped(grid, time_step, laplacian) ==
    [c \in Cells |-> FAdd(grid[c], FMul(time_step, laplacian[c]))]

\* self.field * np.tanh(1 + PHI_CONJUGATE * |field|)
SelfInteract(grid) ==
    [c \in Cells |->
        FMul(grid[c],
             Tanh(FAdd(Float(1, 0), FMul(PHI_CONJUGATE, FAbs(grid[c])))))]

\* self.field *= 0.999
Damped(grid) == [c \in Cells |-> FMul(grid[c], Float(999, -3))]

Propagated(grid, time_step) ==
    Damped(SelfInteract(Stepped(grid, time_step, Laplacian(grid))))

\* np.fft.fft2 of a real grid of at most two cells a side, where every root
\* of unity is 1 or -1
fft2(grid) ==
    [k \in Cells |->
        FSum([i \in DOMAIN CellSeq |->
                 IF (k[1] * CellSeq[i][1] + k[2] * CellSeq[i][2]) % 2 = 0
                 THEN grid[CellSeq[i]] ELSE FNeg(grid[CellSeq[i]])])]

\* np.abs(field_fft)**2
Power(spectrum) == [k \in Cells |-> FMul(spectrum[k], spectrum[k])]

\* power[:50, :50]
LowFreq == 50

LowPower(power) ==
    FSum(Flat([k \in Cells |->
                 IF k[1] < LowFreq /\ k[2] < LowFreq THEN power[k] ELSE FZero]))

CoherenceLow == Float(4, -1)

CoherenceHigh == Float(999, -3)

\* A variant of Coherence that divides whatever the total power is
CoherenceNoFallback(low_freq_power, total_power) ==
    Clip(FDiv(low_freq_power, total_power), CoherenceLow, CoherenceHigh)

Coherence(low_freq_power, total_power) ==
    Clip(IF FLess(FZero, total_power)
         THEN FDiv(low_freq_power, total_power)
         ELSE PHI_CONJUGATE,
         CoherenceLow, CoherenceHigh)

\* the coherence update_coherence() assigns for a grid
UpdatedCoherence(grid) ==
    Coherence(LowPower(Power(fft2(grid))), FSum(Flat(Power(fft2(grid)))))

update_coherence(maxCalls) ==
    /\ field # NoField
    /\ calls < maxCalls
    /\ coherence' = UpdatedCoherence(field)
    /\ calls' = calls + 1
    /\ ret' = [op |-> "update_coherence"]
    /\ UNCHANGED <<memories, connections, emotional_index, clock, evolved,
                   field, phase_lock>>

propagate(time_step, maxCalls) ==
    /\ field # NoField
    /\ calls < maxCalls
    /\ field' = Propagated(field, time_step)
    /\ coherence' = UpdatedCoherence(field')
    /\ calls' = calls + 1
    /\ ret' = [op |-> "propagate", time_step |-> time_step]
    /\ UNCHANGED <<memories, connections, emotional_index, clock, evolved,
                   phase_lock>>

\* np.tanh(combined) * np.exp(-np.abs(combined)**2 / 1000)
Integrated(combined) ==
    [c \in Cells |->
        FMul(Tanh(combined[c]),
             ExpNegThousandth(FMul(FAbs(combined[c]), FAbs(combined[c]))))]

RECURSIVE Combined(_)
Combined(inputs) ==
    IF inputs = <<>> THEN Zeros ELSE Plus(Combined(Tail(inputs)), Head(inputs))

\* the ten leading components of the SVD of a grid of at most ten cells a
\* side are all of its components: their product is the grid
extract_meaning(grid) == grid

integrate_inputs(inputs, maxCalls) ==
    /\ field # NoField
    /\ calls < maxCalls
    /\ field' = normalize_field(Integrated(Combined(inputs)))
    /\ calls' = calls + 1
    /\ ret' = [op |-> "integrate_inputs", inputs |-> inputs,
               value |-> extract_meaning(field')]
    /\ UNCHANGED <<memories, connections, emotional_index, clock, evolved,
                   coherence, phase_lock>>

\* the entries 'coherence', 'total_energy' and 'max_amplitude' of the
\* dictionary measure_state() returns
measure_state ==
    /\ field # NoField
    /\ ret' = [op |-> "measure_state",
               value |-> [coherence |-> coherence,
                          total_energy |->
                              FSum(Flat([c \in Cells |-> FAbs(field[c])])),
                          max_amplitude |-> max_amplitude(field)]]
    /\ UNCHANGED <<memories, connections, emotional_index, clock, evolved,
                   field, coherence, phase_lock, calls>>

-----------------------------------------------------------------------------
(* The clock *)

\* A day passes between two operations.
Tick(maxDay) ==
    /\ clock.d < maxDay
    /\ clock' = Time(clock.d + 1, clock.s)
    /\ UNCHANGED <<memories, connections, emotional_index, evolved, ret,
                   field, coherence, phase_lock, calls>>

-----------------------------------------------------------------------------
(* The general specification: every operation, on a small vocabulary *)

\* "a b", "A c" (similarity 1/3 to "a b"), "b d e f" (1/5 to "a b", 0 to "A c")
Contents == {<<"a", " ", "b">>, <<"A", " ", "c">>, <<"b", " ", "d", " ", "e", " ", "f">>}

Init ==
    /\ memories = <<>>
    /\ connections = EmptyBag
    /\ emotional_index = <<>>
    /\ clock = Time(0, 0)
    /\ evolved = 0
    /\ ret = [op |-> "init"]
    /\ field = NoField
    /\ coherence = NoCoherence
    /\ phase_lock = NoField
    /\ calls = 0

Next ==
    \/ \E c \in Contents : store(c, "neutral", NoMetadata, MaxStores)
    \/ recall(<<"a">>, None, 1, MaxAccess)
    \/ evolve(MaxEvolves)
    \/ dream(1, MaxDreamEdges)
    \/ Tick(MaxDay)

Spec == Init /\ [][Next]_vars

-----------------------------------------------------------------------------
(* SpecRecall: store and recall on records of graded similarity *)

\* content, emotion; similarity to the trigger "a": 1, 1/2, 1/2, 1/5
RecallInputs ==
    {<<<<"a">>, "sadness">>,
     <<<<"a", " ", "b">>, "joy">>,
     <<<<"A", " ", "c">>, "sadness">>,
     <<<<"a", " ", "b", " ", "c", " ", "d", " ", "e">>, "joy">>}

NextRecall ==
    \/ \E in \in RecallInputs : store(in[1], in[2], NoMetadata, RecallStores)
    \/ \E e \in {None, "joy"}, limit \in {0, 1, 2} : recall(<<"a">>, e, limit, MaxAccess)
    \/ Tick(MaxDay)

SpecRecall == Init /\ [][NextRecall]_vars

-----------------------------------------------------------------------------
(* SpecEvolve: a record recalled often and left to age *)

\* test_memory_evolution
NextEvolve ==
    \/ store(<<"Important", " ", "thought">>, "significant", NoMetadata, EvolveStores)
    \/ recall(<<"Important">>, None, 1, EvolveAccess)
    \/ evolve(EvolveCalls)
    \/ Tick(EvolveDays)

SpecEvolve == Init /\ [][NextEvolve]_vars

-----------------------------------------------------------------------------
(* SpecResonance: _calculate_resonance on every pair of short texts *)

\* a call of _calculate_resonance(text1, text2)
resonance(text1, text2) ==
    /\ ret' = [op |-> "calculate_resonance", text1 |-> text1, text2 |-> text2,
               value |-> calculate_resonance(text1, text2)]
    /\ UNCHANGED <<memories, connections, emotional_index, clock, evolved,
                   field, coherence, phase_lock, calls>>

\* the texts of at most MaxTextLen tokens over two words, one of them in
\* both cases, and the blank; two words are separated by a blank
Texts ==
    {text \in UNION {[1..n -> {"a", "A", "b", " "}] : n \in 0..MaxTextLen} :
        \A i \in 1..(Len(text) - 1) : text[i] = " " \/ text[i + 1] = " "}

NextResonance == \E text1, text2 \in Texts : resonance(text1, text2)

SpecResonance == Init /\ [][NextResonance]_vars

-----------------------------------------------------------------------------
(* SpecAccess: test_access_tracking, one content stored and recalled again
   and again *)

NextAccess ==
    \/ store(<<"Track", " ", "this">>, "neutral", NoMetadata, AccessStores)
    \/ recall(<<"Track">>, None, 5, AccessCalls)
    \/ Tick(MaxDay)

SpecAccess == Init /\ [][NextAccess]_vars

-----------------------------------------------------------------------------
(* SpecEmpty: recall with triggers that hold no word, on stores that may
   hold no record or a record whose content holds no word *)

NextEmpty ==
    \/ \E content \in {<<"a", " ", "b">>, <<" ">>} :
          store(content, "joy", NoMetadata, EmptyStores)
    \/ \E trigger \in {<<>>, <<" ">>, <<"a">>}, e \in {None, "", "joy"},
          limit \in {1, 2} :
          recall(trigger, e, limit, MaxAccess)
    \/ Tick(MaxDay)

SpecEmpty == Init /\ [][NextEmpty]_vars

-----------------------------------------------------------------------------
(* SpecStats: every operation of the store, and its statistics *)

\* "Memory 1" and "Memory 2" have similarity 1/3
StatInputs ==
    {<<<<"Memory", " ", "1">>, "happy">>, <<<<"Memory", " ", "2">>, "sad">>}

NextStats ==
    \/ \E in \in StatInputs : store(in[1], in[2], NoMetadata, StatStores)
    \/ recall(<<"Memory">>, None, 1, MaxAccess)
    \/ evolve(MaxEvolves)
    \/ dream(1, MaxDreamEdges)
    \/ statistics

SpecStats == Init /\ [][NextStats]_vars

-----------------------------------------------------------------------------
(* SpecCommit: the operations split at their commits.  Every state is a     *)
(* committed state of the database, which a second connection to the same   *)
(* file can read.  store commits the record (self.conn.commit() in store),  *)
(* then the connections (the commit of _form_connections); recall commits   *)
(* once per returned record (_update_access); evolve commits once.          *)

\* an operation has committed a part of its writes and not yet the rest
Busy ==
    \/ ret.op = "store_insert"
    \/ ret.op = "recall_update" /\ ret.done < Len(ret.value)

\* store up to its first commit: the row is in `memories`
store_insert(content, emotion, metadata, maxStores) ==
    /\ ~Busy
    /\ Stores < maxStores
    /\ \E t1 \in TimeReads(clock) : \E timestamp \in TimeReads(t1) :
         /\ memories' = InsertOrReplace(memories,
                            NewRow(generate_id(content, t1), content, emotion,
                                   timestamp, metadata))
         /\ clock' = timestamp
         /\ ret' = [op |-> "store_insert", content |-> content, emotion |-> emotion,
                    metadata |-> metadata, pre |-> Pre,
                    value |-> generate_id(content, t1)]
    /\ UNCHANGED <<connections, emotional_index, evolved, field, coherence, phase_lock, calls>>

\* the rest of store: _form_connections and its commit, then the index
store_connect ==
    /\ ret.op = "store_insert"
    /\ connections' = form_connections(memories, connections, ret.value, ret.content)
    /\ emotional_index' = IndexAppend(emotional_index, ret.emotion, ret.value)
    /\ ret' = [ret EXCEPT !.op = "store"]
    /\ UNCHANGED <<memories, clock, evolved, field, coherence, phase_lock, calls>>

\* recall up to the sort: nothing is written
recall_scan(trigger, emotion, limit) ==
    /\ ~Busy
    /\ \E reads \in ReadSeqs(Len(memories), clock.s) :
         /\ clock' = Time(clock.d, LastRead(reads, clock.s))
         /\ ret' = [op |-> "recall_update", trigger |-> trigger, emotion |-> emotion,
                    limit |-> limit, pre |-> Pre, done |-> 0,
                    value |-> Top(Scan(memories, connections, trigger, emotion,
                                       clock.d, reads), limit)]
    /\ UNCHANGED <<memories, connections, emotional_index, evolved,
                   field, coherence, phase_lock, calls>>

\* one _update_access of recall, with its commit
recall_update(maxAccess) ==
    /\ ret.op = "recall_update"
    /\ ret.done < Len(ret.value)
    /\ ret.value[ret.done + 1].memory.access_count < maxAccess
    /\ \E now \in TimeReads(clock) :
         /\ memories' = UpdateAccess(memories, <<ret.value[ret.done + 1]>>,
                                     <<now.s>>, now.d)
         /\ clock' = now
    /\ ret' = [ret EXCEPT !.done = @ + 1]
    /\ UNCHANGED <<connections, emotional_index, evolved, field, coherence, phase_lock, calls>>

NextCommit ==
    \/ \E c \in Contents : store_insert(c, "neutral", NoMetadata, MaxStores)
    \/ store_connect
    \/ recall_scan(<<"a">>, None, 2)
    \/ recall_update(MaxAccess)
    \/ ~Busy /\ evolve(MaxEvolves)
    \/ ~Busy /\ dream(1, MaxDreamEdges)

SpecCommit == Init /\ [][NextCommit]_vars

-----------------------------------------------------------------------------
(* Scenarios of tests/test_memory_palace.py: the stores of a test in the    *)
(* test's order, then its recall, any time passing in between               *)

\* the next store of a script of (content, emotion) pairs
StoreNext(script) ==
    /\ Len(memories) < Len(script)
    /\ store(script[Len(memories) + 1][1], script[Len(memories) + 1][2],
             NoMetadata, Len(script))

\* test_connection_formation
ConnectionScript ==
    <<<<<<"Mathematics", " ", "is", " ", "beautiful">>, "neutral">>,
      <<<<"Beautiful", " ", "patterns", " ", "emerge", " ", "from", " ", "chaos">>,
        "neutral">>,
      <<<<"The", " ", "weather", " ", "is", " ", "nice">>, "neutral">>>>

NextConnection ==
    \/ StoreNext(ConnectionScript)
    \/ Tick(MaxDay)

SpecConnection == Init /\ [][NextConnection]_vars

\* test_associative_recall
CatScript ==
    <<<<<<"The", " ", "cat", " ", "sat", " ", "on", " ", "the", " ", "mat">>, "neutral">>,
      <<<<"The", " ", "dog", " ", "played", " ", "in", " ", "the", " ", "yard">>, "happy">>,
      <<<<"The", " ", "cat", " ", "chased", " ", "the", " ", "mouse">>, "excited">>>>

NextCat ==
    \/ StoreNext(CatScript)
    \/ recall(<<"cat">>, None, 5, MaxAccess)
    \/ Tick(MaxDay)

SpecCat == Init /\ [][NextCat]_vars

\* test_emotional_indexing
EmotionScript ==
    <<<<<<"I", " ", "am", " ", "happy">>, "joy">>,
      <<<<"I", " ", "am", " ", "sad">>, "sadness">>,
      <<<<"I", " ", "am", " ", "excited">>, "joy">>>>

NextEmotion ==
    \/ StoreNext(EmotionScript)
    \/ \E limit \in {2, 5} : recall(<<"I", " ", "am">>, "joy", limit, MaxAccess)
    \/ Tick(MaxDay)

SpecEmotion == Init /\ [][NextEmotion]_vars

-----------------------------------------------------------------------------
(* SpecIds: stores of two contents, one of which is the other followed by
   a digit, over days whose count grows from one digit to two *)

NextIds ==
    \/ \E content \in {<<"x", " ", "1">>, <<"x", " ">>}, emotion \in {"joy", "sad"} :
          store(content, emotion, NoMetadata, IdStores)
    \/ Tick(IdDays)

SpecIds == Init /\ [][NextIds]_vars

-----------------------------------------------------------------------------
(* SpecField: a field is constructed, then ripples, propagation steps,
   integrations and coherence updates follow in any order *)

\* the lists of input grids: none, a grid of ones, and a grid of ones with
\* a grid that is 2 in one cell
InputLists ==
    {<<>>,
     <<[c \in Cells |-> Float(1, 0)]>>,
     <<[c \in Cells |-> Float(1, 0)],
       [c \in Cells |-> IF c = <<0, 0>> THEN Float(2, 0) ELSE FZero]>>}

\* ripples of amplitude 1.0 and 20.0 and frequency 0; time steps 0.01 (the
\* default), 1.0 and 1e200
NextField ==
    \/ ConsciousnessField
    \/ \E origin \in {<<0, 0>>, <<1, 0>>}, amplitude \in {Float(1, 0), Float(20, 0)} :
          create_ripple(origin, 0, amplitude, FieldCalls)
    \/ \E time_step \in {Float(1, -2), Float(1, 0), Float(1, 200)} :
          propagate(time_step, FieldCalls)
    \/ \E inputs \in InputLists : integrate_inputs(inputs, FieldCalls)
    \/ update_coherence(FieldCalls)
    \/ measure_state

SpecField == Init /\ [][NextField]_vars

-----------------------------------------------------------------------------
(* SpecPairs: three stores, two of them of one content, with dream phases
   of zero, one or two pairs in between *)

PairScript ==
    <<<<<<"a", " ", "b">>, "joy">>,
      <<<<"A", " ", "c">>, "joy">>,
      <<<<"a", " ", "b">>, "sad">>>>

NextPairs ==
    \/ StoreNext(PairScript)
    \/ \E num_connections \in {0, 1, 2} : dream(num_connections, MaxDreamEdges)

SpecPairs == Init /\ [][NextPairs]_vars

-----------------------------------------------------------------------------
(* SpecDream: test_dream_phase, four records that share too few words to be
   connected, then dream(num_connections=4) *)

DreamScript ==
    <<<<<<"The", " ", "moon", " ", "is", " ", "bright">>, "wonder">>,
      <<<<"Coffee", " ", "tastes", " ", "bitter">>, "morning">>,
      <<<<"Music", " ", "fills", " ", "the", " ", "air">>, "joy">>,
      <<<<"Numbers", " ", "dance", " ", "in", " ", "patterns">>, "curious">>>>

NextDream ==
    \/ StoreNext(DreamScript)
    \/ Len(memories) = Len(DreamScript) /\ dream(4, MaxDreamEdges)

SpecDream == Init /\ [][NextDream]_vars

-----------------------------------------------------------------------------
(* Claims checked under Spec *)

Reverse(e) == Edge(e.connected_id, e.memory_id, e.strength, e.connection_type)

\* the rows store() must have added for edge e: one when e is a semantic edge
\* between the new record and another stored record whose similarity to the
\* new content exceeds 0.3 and is e's strength, none otherwise
Expected(e, new, content, rows) ==
   IF /\ e.connection_type = "semantic"
      /\ \E i \in DOMAIN rows :
           /\ rows[i].id # new
           /\ <<e.memory_id, e.connected_id>> \in {<<new, rows[i].id>>, <<rows[i].id, new>>}
           /\ e.strength = calculate_resonance(content, rows[i].content)
           /\ RLess(Rat(3, 10), e.strength)
   THEN 1 ELSE 0

\* C1: store(content) adds semantic edges to a stored record exactly when the
\* Jaccard similarity of the two contents exceeds 0.3, in both directions and
\* with that similarity as strength; and in every reachable state every
\* semantic edge (a, b, s) has a matching semantic edge (b, a, s).
C1_SymmetricSemanticEdges ==
    /\ ret.op = "store" =>
         \A e \in BagToSet(connections) \cup BagToSet(ret.pre.connections) :
            CopiesIn(e, connections) =
               CopiesIn(e, ret.pre.connections)
                 + Expected(e, ret.value, ret.content, memories)
    /\ ret.op = "store" =>
         \A i \in DOMAIN memories :
            (/\ memories[i].id # ret.value
             /\ RLess(Rat(3, 10), calculate_resonance(ret.content, memories[i].content)))
            => \E e \in BagToSet(connections) :
                 /\ e.memory_id = ret.value
                 /\ e.connected_id = memories[i].id
                 /\ e.connection_type = "semantic"
    /\ \A e \in BagToSet(connections) :
         e.connection_type = "semantic" => Reverse(e) \in BagToSet(connections)

\* store has linked two records, and dream, recall and evolve have run since
C1_Witness ==
    /\ \E e \in BagToSet(connections) : e.connection_type = "semantic"
    /\ \E e \in BagToSet(connections) : e.connection_type = "dream"
    /\ \E i \in DOMAIN memories : memories[i].access_count > 0
    /\ evolved > 0

\* C5: evolve() creates no connection and changes none: the table after
\* evolve is the rows of the table before it whose strength is >= 0.1, so
\* after evolve no connection is weaker than 0.1.
C5_EvolveOnlyPrunes ==
    ret.op = "evolve" =>
      /\ \A e \in BagToSet(connections) \cup BagToSet(ret.pre.connections) :
           CopiesIn(e, connections) =
              IF RLess(e.strength, Rat(1, 10)) THEN 0
              ELSE CopiesIn(e, ret.pre.connections)
      /\ \A e \in BagToSet(connections) : ~RLess(e.strength, Rat(1, 10))

\* an evolve that started with a weak and a strong connection
C5_Witness ==
    /\ ret.op = "evolve"
    /\ \E e \in BagToSet(ret.pre.connections) : RLess(e.strength, Rat(1, 10))
    /\ \E e \in BagToSet(ret.pre.connections) :
         e.connection_type = "dream" /\ e \in BagToSet(connections)
    /\ \E e \in BagToSet(connections) : e.connection_type = "semantic"

\* C6: dream() inserts a dream edge only if an identical row is not already
\* there: `connections` never holds two identical dream rows.
C6_DreamInsertIfAbsent ==
    \A e \in BagToSet(connections) :
       e.connection_type = "dream" => CopiesIn(e, connections) = 1

\* C23: in every state reachable by store, recall, evolve and dream, every
\* connection joins two distinct records that both exist: no edge has its
\* from-id equal to its to-id, and no edge names an identifier that is not
\* stored.
C23_EdgesJoinRecords ==
    \A e \in BagToSet(connections) :
       /\ e.memory_id # e.connected_id
       /\ \E i \in DOMAIN memories : memories[i].id = e.memory_id
       /\ \E i \in DOMAIN memories : memories[i].id = e.connected_id

\* a dream has added a connection to a table that held semantic ones, after
\* an evolve
C23_Witness ==
    /\ ret.op = "dream"
    /\ evolved > 0
    /\ \E e \in BagToSet(ret.pre.connections) : e.connection_type = "semantic"
    /\ \E e \in BagToSet(connections) :
         e.connection_type = "dream" /\ e \notin BagToSet(ret.pre.connections)

\* C24: evolve never removes a semantic edge: every semantic edge has a
\* strength strictly greater than 0.3 and at most 1, so no step takes a copy
\* of a semantic edge out of `connections`, and a semantic edge created by
\* store is there in every later state.
C24_SemanticEdgesStay ==
    /\ [](\A e \in BagToSet(connections) :
            e.connection_type = "semantic" =>
              /\ RLess(Rat(3, 10), e.strength)
              /\ ~RLess(Rat(1, 1), e.strength))
    /\ [][\A e \in BagToSet(connections) :
            e.connection_type = "semantic" =>
              CopiesIn(e, connections') >= CopiesIn(e, connections)]_vars

\* an evolve that pruned a dream connection and kept a semantic one
C24_Witness ==
    /\ ret.op = "evolve"
    /\ \E e \in BagToSet(ret.pre.connections) :
         /\ e.connection_type = "dream"
         /\ e \notin BagToSet(connections)
    /\ \E e \in BagToSet(ret.pre.connections) :
         /\ e.connection_type = "semantic"
         /\ CopiesIn(e, connections) = CopiesIn(e, ret.pre.connections)

-----------------------------------------------------------------------------
(* Claims checked under SpecRecall *)

\* a score exceeds 0.2 (lag is never negative: the clock does not run back)
Exceeds(score) == RLess(Rat(1, 5), score.p)

\* the scanned rows whose score exceeds 0.2
Passing == {i \in DOMAIN ret.scanned : Exceeds(ret.scanned[i].score)}

\* the ids of the records recall returned
Returned == {ret.value[j].memory.id : j \in DOMAIN ret.value}

\* C2: for a limit >= 0 recall returns at most `limit` (record, score) pairs
\* of distinct stored records, ordered by score descending, every score
\* above 0.2; it returns min(limit, number of records scoring above 0.2)
\* pairs, and no record left out scores above 0.2 and higher than a
\* returned one.
C2_RecallTopLimit ==
    (ret.op = "recall" /\ ret.limit >= 0) =>
      /\ Len(ret.value) <= ret.limit
      /\ \A j, k \in DOMAIN ret.value :
           j < k => /\ ~ScoreLess(ret.value[j].score, ret.value[k].score)
                    /\ ret.value[j].memory.id # ret.value[k].memory.id
      /\ \A j \in DOMAIN ret.value :
           /\ Exceeds(ret.value[j].score)
           /\ \E i \in DOMAIN ret.scanned : ret.scanned[i] = ret.value[j]
      /\ Len(ret.value) = IF ret.limit < Cardinality(Passing)
                          THEN ret.limit ELSE Cardinality(Passing)
      /\ \A i \in Passing :
           ret.scanned[i].memory.id \notin Returned =>
             \A j \in DOMAIN ret.value :
                ~ScoreLess(ret.value[j].score, ret.scanned[i].score)

\* a recall with limit 1 over two records that both score above 0.2, the
\* one scanned second scoring higher
C2_Witness ==
    /\ ret.op = "recall"
    /\ ret.limit = 1
    /\ Len(ret.scanned) = 2
    /\ Passing = {1, 2}
    /\ ScoreLess(ret.scanned[1].score, ret.scanned[2].score)
    /\ Len(ret.value) = 1

\* t is not later than u
TLeq(t, u) == ~TLess(u, t)

\* a step of recall: recall is the operation that last returned and the day
\* has not changed (Tick is the only other step that keeps ret)
RecallStep == ret'.op = "recall" /\ clock'.d = clock.d

\* C3: a recall step adds one to access_count and sets last_accessed to a
\* clock reading of the call for exactly the records it returns; every other
\* record keeps both, no record changes its id, content, emotion, timestamp,
\* resonance or metadata, no record is added or removed, and `connections`
\* is unchanged.
C3_RecallTouchesOnlyReturned ==
    [][RecallStep =>
        /\ connections' = connections
        /\ DOMAIN memories' = DOMAIN memories
        /\ \A i \in DOMAIN memories :
             /\ memories'[i].id = memories[i].id
             /\ memories'[i].content = memories[i].content
             /\ memories'[i].emotion = memories[i].emotion
             /\ memories'[i].timestamp = memories[i].timestamp
             /\ memories'[i].resonance = memories[i].resonance
             /\ memories'[i].metadata = memories[i].metadata
             /\ IF \E j \in DOMAIN ret'.value :
                      ret'.value[j].memory.id = memories[i].id
                THEN /\ memories'[i].access_count = memories[i].access_count + 1
                     /\ TLeq(clock, memories'[i].last_accessed)
                     /\ TLeq(memories'[i].last_accessed, clock')
                ELSE /\ memories'[i].access_count = memories[i].access_count
                     /\ memories'[i].last_accessed = memories[i].last_accessed
    ]_vars

\* a recall, a day after the records were stored, that returned one record
\* and left out another that scored above 0.2
C3_Witness ==
    /\ ret.op = "recall"
    /\ Cardinality(Passing) = 2
    /\ Len(ret.value) = 1
    /\ \E i \in DOMAIN memories :
         /\ memories[i].id \in Returned
         /\ memories[i].access_count = 1
         /\ memories[i].last_accessed.d > memories[i].timestamp.d

\* similarity and emotion match of a scanned record, as recall computes them
Similarity(i) == calculate_resonance(ret.trigger, ret.scanned[i].memory.content)

Matches(i) ==
    ret.emotion # None /\ ret.emotion # "" /\ ret.scanned[i].memory.emotion = ret.emotion

\* scanned record j ranks ahead of scanned record i in the returned list
Ahead(j, i) ==
    \A k \in DOMAIN ret.value :
       ret.value[k].memory.id = ret.scanned[i].memory.id =>
         \E h \in 1..(k - 1) : ret.value[h].memory.id = ret.scanned[j].memory.id

\* C10: of two records with equal similarity to the trigger and equal emotion
\* match, the one with the strictly later last_accessed is ranked ahead of
\* the other in the returned list, in either scan order.
C10_RecentFirst ==
    ret.op = "recall" =>
      \A i, j \in DOMAIN ret.scanned :
         (/\ Similarity(i) = Similarity(j)
          /\ Similarity(i) # Zero
          /\ Matches(i) = Matches(j)
          /\ TLess(ret.scanned[i].memory.last_accessed,
                   ret.scanned[j].memory.last_accessed))
         => Ahead(j, i)

-----------------------------------------------------------------------------
(* Claims checked under SpecEvolve *)

\* record i was last accessed more than 7 days before the evolve that last
\* returned read the clock
Aged(i) ==
    TLess(ret.pre.memories[i].last_accessed,
          Time(ret.current_time.d - 7, ret.current_time.s))

Frequent(i) == ret.pre.memories[i].access_count > 10

\* C4 as stated: evolve strictly increases resonance for every record with
\* access_count > 10 and strictly decreases it for every record last accessed
\* more than 7 days before, a record with both included.
C4_AsStated ==
    ret.op = "evolve" =>
      \A i \in DOMAIN ret.pre.memories :
         /\ Frequent(i) => RLess(ret.pre.memories[i].resonance, memories[i].resonance)
         /\ Aged(i) => RLess(memories[i].resonance, ret.pre.memories[i].resonance)

\* C4: evolve multiplies resonance by 1.01 for every record with
\* access_count > 10 and then by 0.99 for every record last accessed more
\* than 7 days before the current time, and changes nothing else of a record.
\* So resonance strictly increases for a record with access_count > 10 that
\* was accessed within the 7 days, strictly decreases for every record last
\* accessed more than 7 days before (one with access_count > 10 included: net
\* factor 0.9999), and is unchanged for every other record.
C4_EvolveResonance ==
    ret.op = "evolve" =>
      /\ DOMAIN memories = DOMAIN ret.pre.memories
      /\ \A i \in DOMAIN ret.pre.memories :
           /\ memories[i] =
                [ret.pre.memories[i] EXCEPT !.resonance =
                    RMul(RMul(@, IF Frequent(i) THEN Rat(101, 100) ELSE Rat(1, 1)),
                         IF Aged(i) THEN Rat(99, 100) ELSE Rat(1, 1))]
           /\ (Frequent(i) /\ ~Aged(i))
                => RLess(ret.pre.memories[i].resonance, memories[i].resonance)
           /\ Aged(i)
                => RLess(memories[i].resonance, ret.pre.memories[i].resonance)
           /\ (~Frequent(i) /\ ~Aged(i))
                => memories[i].resonance = ret.pre.memories[i].resonance

\* an evolve over a record that was accessed 11 times and then left for more
\* than 7 days
C4_Witness ==
    /\ ret.op = "evolve"
    /\ \E i \in DOMAIN ret.pre.memories : Frequent(i) /\ Aged(i)

-----------------------------------------------------------------------------
(* Claims checked under the scenarios *)

\* `memories` holds exactly the records of a script, in the script's order
Holds(rows, script) ==
    /\ Len(rows) = Len(script)
    /\ \A k \in DOMAIN script :
         rows[k].content = script[k][1] /\ rows[k].emotion = script[k][2]

\* a semantic edge leads from record i to record j
Linked(i, j) ==
    \E e \in BagToSet(connections) :
       /\ e.connection_type = "semantic"
       /\ e.memory_id = memories[i].id
       /\ e.connected_id = memories[j].id

\* C7: once "Mathematics is beautiful" and "Beautiful patterns emerge from
\* chaos" are stored, a semantic edge leads from each to the other; once
\* "The weather is nice" is stored after them, no edge leads from or to it;
\* and any two stored records that share a word are linked in both directions.
C7_SharedWordConnects ==
    /\ Len(memories) >= 2 => Linked(1, 2) /\ Linked(2, 1)
    /\ Holds(memories, ConnectionScript) =>
         \A e \in BagToSet(connections) :
            memories[3].id \notin {e.memory_id, e.connected_id}
    /\ \A i, j \in DOMAIN memories :
         (i # j /\ LowerWords(memories[i].content)
                     \cap LowerWords(memories[j].content) # {})
         => Linked(i, j) /\ Linked(j, i)

\* C8: after the three sentences are stored, recall("cat") returns at least
\* two records, and both records whose content contains "cat" are among them.
C8_CatRecall ==
    (ret.op = "recall" /\ Holds(ret.pre.memories, CatScript)) =>
      /\ Len(ret.value) >= 2
      /\ \A i \in DOMAIN ret.scanned :
           "cat" \in LowerWords(ret.scanned[i].memory.content)
             => ret.scanned[i].memory.id \in Returned

\* the scanned records were all last accessed on one day
SameDay ==
    \A i, j \in DOMAIN ret.scanned :
       ret.scanned[i].memory.last_accessed.d = ret.scanned[j].memory.last_accessed.d

\* C9: in a recall with an emotion, of two records with equal similarity
\* (not 0) to the trigger and equal last_accessed, one tagged with the
\* emotion and one tagged otherwise, the tagged one scores 1.5 times the
\* similarity and is ranked ahead; and with "I am happy" (joy), "I am sad"
\* (sadness), "I am excited" (joy) stored and last accessed within clock
\* steps of one another, recall("I am", "joy") has the two joy records as
\* its first two results.
C9_EmotionFirst ==
    ret.op = "recall" =>
      /\ \A i, j \in DOMAIN ret.scanned :
           (/\ Similarity(i) = Similarity(j)
            /\ Similarity(i) # Zero
            /\ ret.scanned[i].memory.last_accessed = ret.scanned[j].memory.last_accessed
            /\ Matches(j)
            /\ ret.scanned[i].memory.emotion # ret.emotion)
           => /\ ret.scanned[j].score.p = RMul(Rat(3, 2), ret.scanned[i].score.p)
              /\ ScoreLess(ret.scanned[i].score, ret.scanned[j].score)
              /\ Ahead(j, i)
              /\ ret.limit >= Len(ret.scanned) =>
                    ret.scanned[j].memory.id \in Returned
      /\ (Holds(ret.pre.memories, EmotionScript) /\ SameDay) =>
           /\ Len(ret.value) >= 2
           /\ ret.value[1].memory.emotion = "joy"
           /\ ret.value[2].memory.emotion = "joy"

\* recall("I am", "joy") over the three records, "I am happy" and "I am sad"
\* with equal last_accessed, returned all three, the sadness record last
C9_Witness ==
    /\ ret.op = "recall"
    /\ Holds(ret.pre.memories, EmotionScript)
    /\ ret.emotion = "joy"
    /\ ret.scanned[1].memory.last_accessed = ret.scanned[2].memory.last_accessed
    /\ Len(ret.value) = 3
    /\ ret.value[3].memory.emotion = "sadness"

-----------------------------------------------------------------------------
(* Claims on the life of a record *)

\* C11: across store, recall, evolve and dream, for every record identifier
\* the record's access_count never decreases and its last_accessed never
\* moves backwards.
C11_AccessMonotone ==
    [][\A i \in DOMAIN memories : \A j \in DOMAIN memories' :
          memories'[j].id = memories[i].id =>
            /\ memories'[j].access_count >= memories[i].access_count
            /\ ~TLess(memories'[j].last_accessed, memories[i].last_accessed)
    ]_vars

\* the identifiers store() has returned so far
StoredIds ==
    UNION {{emotional_index[e][k] : k \in DOMAIN emotional_index[e]} :
             e \in DOMAIN emotional_index}

\* the sum of the counts of a by_emotion map
RECURSIVE SumCounts(_, _)
SumCounts(counts, keys) ==
    IF keys = {} THEN 0
    ELSE counts[CHOOSE e \in keys : TRUE]
           + SumCounts(counts, keys \ {CHOOSE e \in keys : TRUE})

\* C12: no step of store, recall, evolve, dream or get_statistics lowers
\* total_memories or removes a record's identifier from `memories`; every
\* identifier store has returned is in `memories`; and when the stores so
\* far produced as many distinct identifiers as there were stores,
\* get_statistics reports that number as total_memories and as the sum of
\* its by_emotion counts.
C12_NoRecordRemoved ==
    /\ [](/\ \A id \in StoredIds : \E i \in DOMAIN memories : memories[i].id = id
          /\ (ret.op = "get_statistics" /\ Cardinality(StoredIds) = Stores) =>
               /\ ret.value.total_memories = Stores
               /\ SumCounts(ret.value.by_emotion, DOMAIN ret.value.by_emotion) = Stores)
    /\ [][/\ get_statistics(memories', connections').total_memories
               >= get_statistics(memories, connections).total_memories
          /\ \A i \in DOMAIN memories :
               \E j \in DOMAIN memories' : memories'[j].id = memories[i].id
       ]_vars

\* get_statistics after two stores with distinct identifiers and different
\* emotions, a recall, an evolve and a dream that added an edge
C12_Witness ==
    /\ ret.op = "get_statistics"
    /\ Stores = 2
    /\ Cardinality(StoredIds) = 2
    /\ Cardinality(DOMAIN ret.value.by_emotion) = 2
    /\ evolved > 0
    /\ \E i \in DOMAIN memories : memories[i].access_count > 0
    /\ \E e \in BagToSet(connections) : e.connection_type = "dream"

-----------------------------------------------------------------------------
(* Claims checked under SpecCommit *)

\* C13: in no committed state is a record in `memories` without the semantic
\* connections store gives it (both directions to every other record of
\* similarity above 0.3), has a recall incremented some of the records it
\* returns and not the others, or has an evolve deleted some of the
\* connections weaker than 0.1 and not the others.
C13_AtomicOperations ==
    /\ \A i, j \in DOMAIN memories :
         (i # j /\ RLess(Rat(3, 10),
                         calculate_resonance(memories[i].content, memories[j].content)))
         => Linked(i, j)
    /\ ret.op = "recall_update" => ret.done \in {0, Len(ret.value)}
    /\ ret.op = "evolve" =>
         \A e \in BagToSet(connections) : ~RLess(e.strength, Rat(1, 10))

-----------------------------------------------------------------------------
(* Claims checked under SpecResonance *)

\* a text with every word in lower case
Folded(text) == [i \in DOMAIN text |-> Lower(text[i])]

\* the words of a text, case folded
Vocabulary(text) == {Lower(text[i]) : i \in {k \in DOMAIN text : text[k] # " "}}

\* what C16 says of every call but the value for identical texts: 0 for
\* disjoint vocabularies, symmetric, case-insensitive, within [0, 1]
SimilarityLaws ==
    /\ Vocabulary(ret.text1) \cap Vocabulary(ret.text2) = {} => ret.value = Zero
    /\ ret.value = calculate_resonance(ret.text2, ret.text1)
    /\ ret.value = calculate_resonance(Folded(ret.text1), ret.text2)
    /\ ret.value = calculate_resonance(ret.text1, Folded(ret.text2))
    /\ ~RLess(ret.value, Zero)
    /\ ~RLess(Rat(1, 1), ret.value)

\* C16 as stated: _calculate_resonance returns 1.0 for any two identical
\* strings and 0.0 for disjoint vocabularies, is symmetric, case-insensitive
\* and within [0, 1].
C16_AsStated ==
    ret.op = "calculate_resonance" =>
      /\ ret.text1 = ret.text2 => ret.value = Rat(1, 1)
      /\ SimilarityLaws

\* C16: _calculate_resonance returns 1.0 for two identical strings that
\* hold at least one word, 0.0 when either string holds no word (two
\* identical empty or blank strings included) and for disjoint vocabularies,
\* and is symmetric, case-insensitive and within [0, 1].
C16_Similarity ==
    ret.op = "calculate_resonance" =>
      /\ (ret.text1 = ret.text2 /\ Vocabulary(ret.text1) # {}) => ret.value = Rat(1, 1)
      /\ (Vocabulary(ret.text1) = {} \/ Vocabulary(ret.text2) = {}) => ret.value = Zero
      /\ SimilarityLaws

\* a call on two identical blank strings, which returned 0
C16_Witness ==
    /\ ret.op = "calculate_resonance"
    /\ ret.text1 = <<" ", " ">>
    /\ ret.text2 = ret.text1
    /\ ret.value = Zero

-----------------------------------------------------------------------------
(* Claims checked under SpecAccess *)

\* the access_count of the row of an identifier
CountOf(rows, id) ==
    LET i == CHOOSE i \in DOMAIN rows : rows[i].id = id
    IN  rows[i].access_count

\* C19: the record object returned by recall carries the access_count read
\* before this recall's own increment: it is the count the row had before
\* the call and one less than the count the row has after it; it is 0 in
\* the first recall after the store of the record, and one more than what
\* the preceding recall reported when recalls follow each other.
C19_PreIncrementCount ==
    [][RecallStep =>
        \A k \in DOMAIN ret'.value :
           /\ ret'.value[k].memory.access_count
                 = CountOf(memories, ret'.value[k].memory.id)
           /\ CountOf(memories', ret'.value[k].memory.id)
                 = ret'.value[k].memory.access_count + 1
           /\ (ret.op = "store" /\ ret.value = ret'.value[k].memory.id)
                 => ret'.value[k].memory.access_count = 0
           /\ ret.op = "recall" =>
                 \A j \in DOMAIN ret.value :
                    ret.value[j].memory.id = ret'.value[k].memory.id
                       => ret'.value[k].memory.access_count
                             = ret.value[j].memory.access_count + 1]_vars

\* the fifth consecutive recall of the stored record reported 4
C19_Witness ==
    /\ ret.op = "recall"
    /\ Len(memories) = 1
    /\ Len(ret.value) = 1
    /\ ret.value[1].memory.access_count = 4
    /\ memories[1].access_count = 5

-----------------------------------------------------------------------------
(* Claims checked under SpecEmpty *)

\* C20: recall on a store with no records, or with a trigger that has no
\* words (empty or whitespace-only), returns an empty list for any emotion
\* argument, and leaves every record and every connection as it was.
C20_EmptyRecall ==
    (/\ ret.op = "recall"
     /\ Len(ret.pre.memories) = 0 \/ Split(ret.trigger) = <<>>)
    => /\ ret.value = <<>>
       /\ memories = ret.pre.memories
       /\ connections = ret.pre.connections

\* a blank trigger with a matching emotion was recalled on a store that
\* holds a record of blank content, and nothing was returned
C20_Witness ==
    /\ ret.op = "recall"
    /\ ret.trigger = <<" ">>
    /\ ret.emotion = "joy"
    /\ \E i \in DOMAIN ret.pre.memories : ret.pre.memories[i].content = <<" ">>
    /\ ret.value = <<>>
    /\ memories = ret.pre.memories

-----------------------------------------------------------------------------
(* Claims checked under SpecDream *)

\* C18: calling dream(num_connections=4) on a store that holds the four
\* records of test_dream_phase, with no connection between them, leaves
\* total_connections greater than 0.
C18_DreamConnects ==
    (/\ ret.op = "dream"
     /\ ret.num_connections = 4
     /\ Holds(ret.pre.memories, DreamScript)
     /\ ret.pre.connections = EmptyBag)
    => get_statistics(memories, connections).total_connections > 0

-----------------------------------------------------------------------------
(* Claims checked under SpecIds *)

\* the rows of an identifier
RowsOf(rows, id) == {i \in DOMAIN rows : rows[i].id = id}

\* the last store found its identifier in the table
Collided == ret.op = "store" /\ RowsOf(ret.pre.memories, ret.value) # {}

\* a colliding store leaves exactly one record of the identifier, with the
\* call's emotion and metadata and access_count 0, and as many records as
\* before
CollisionOverwrites ==
    Collided =>
      /\ Cardinality(RowsOf(memories, ret.value)) = 1
      /\ \A i \in RowsOf(memories, ret.value) :
            /\ memories[i].emotion = ret.emotion
            /\ memories[i].metadata = MetadataText(ret.metadata)
            /\ memories[i].access_count = 0
      /\ Len(memories) = Len(ret.pre.memories)

\* a store never generates the identifier of a record of another content
DistinctContentDistinctId ==
    ret.op = "store" =>
      \A i \in DOMAIN ret.pre.memories :
         ret.pre.memories[i].content # ret.content
            => ret.pre.memories[i].id # ret.value

\* C17: a store call whose identifier collides with an existing record
\* overwrites it: afterwards exactly one record with that identifier exists,
\* it carries the new call's emotion and metadata with access_count 0, and
\* the number of records is unchanged; and stores with distinct content
\* always yield distinct identifiers.
C17_Collisions == CollisionOverwrites /\ DistinctContentDistinctId

\* C25: after any sequence of stores the emotion index agrees with the
\* records: an identifier is listed under emotion e exactly once when the
\* record of that identifier has emotion e, and not at all otherwise.
C25_IndexAgrees ==
    \A e \in DOMAIN emotional_index \cup {memories[i].emotion : i \in DOMAIN memories} :
      \A id \in StoredIds \cup {memories[i].id : i \in DOMAIN memories} :
         Cardinality({k \in (IF e \in DOMAIN emotional_index
                               THEN DOMAIN emotional_index[e] ELSE {}) :
                        emotional_index[e][k] = id})
           = IF \E i \in DOMAIN memories :
                    memories[i].id = id /\ memories[i].emotion = e
             THEN 1 ELSE 0

-----------------------------------------------------------------------------
(* Claims checked under SpecField *)

\* C14: after any sequence of create_ripple and propagate calls, with any
\* origin, frequency, amplitude and time_step, max_amplitude as reported by
\* measure_state never exceeds 10.
C14_AmplitudeBounded ==
    (ret.op = "measure_state" /\ calls > 0)
       => ~FLess(Ten, ret.value.max_amplitude)

\* C15: in every reachable state, from construction through any sequence
\* of create_ripple, propagate, integrate_inputs and update_coherence calls,
\* coherence lies in [0.4, 0.999].
C15_CoherenceBounded ==
    coherence # NoCoherence =>
       /\ coherence.k = "num"
       /\ ~FLess(coherence, CoherenceLow)
       /\ ~FLess(CoherenceHigh, coherence)

\* C22: on a grid that is entirely zero, as it is right after construction,
\* propagate with any time_step leaves the grid entirely zero and leaves
\* coherence at the fallback constant PHI_CONJUGATE.
C22_ZeroGridStays ==
    [][(field = Zeros /\ ret'.op = "propagate" /\ calls' = calls + 1)
          => (field' = Zeros /\ coherence' = PHI_CONJUGATE)]_vars

\* the first call on a new field was propagate(1e200), and the grid is zero
\* with the fallback coherence
C22_Witness ==
    /\ ret.op = "propagate"
    /\ ret.time_step = Float(1, 200)
    /\ calls = 1
    /\ field = Zeros
    /\ coherence = PHI_CONJUGATE

-----------------------------------------------------------------------------
(* Claims checked under SpecPairs *)

\* the connections the last operation added
Added == connections (-) ret.pre.connections

\* C21: each dream(num_connections) call adds at most num_connections
\* edges, every added edge has kind dream and strength in [0, 0.5), and
\* dream changes no record and removes or alters no existing connection;
\* with fewer than two stored records dream adds nothing.
C21_DreamAddsOnly ==
    ret.op = "dream" =>
      /\ memories = ret.pre.memories
      /\ \A e \in BagToSet(ret.pre.connections) :
            CopiesIn(e, ret.pre.connections) <= CopiesIn(e, connections)
      /\ BagCardinality(Added) <= ret.num_connections
      /\ \A e \in BagToSet(Added) :
            /\ e.connection_type = "dream"
            /\ ~RLess(e.strength, Zero)
            /\ RLess(e.strength, Rat(1, 2))
      /\ Len(ret.pre.memories) < 2 => connections = ret.pre.connections

\* a dream phase of one pair on three records with connections between
\* them added one edge
C21_Witness ==
    /\ ret.op = "dream"
    /\ ret.num_connections = 1
    /\ Len(ret.pre.memories) = 3
    /\ \E e \in BagToSet(ret.pre.connections) : e.connection_type = "semantic"
    /\ \E e \in BagToSet(ret.pre.connections) : e.connection_type = "dream"
    /\ BagCardinality(Added) = 1

=============================================================================
